---------------------------- MODULE Spec2Model ----------------------------
(***************************************************************************)
(* A model of the ls re-implementation kept in this repository as a series *)
(* of versions:                                                            *)
(*   "v1.2.0"  src/src/ls-v1.3.0.c, lines   1-206  (-l, -C, simple)        *)
(*   "v1.3.0"  src/src/ls-v1.3.0.c, lines 344-554  (-l, -x, default -C)    *)
(*   "v1.4.0"  src/src/ls-v1.4.0.c, lines 226-461  (-l, -C, -x, -t, -r)    *)
(*   "v1.5.0"  src/src/ls-v1.5.0.c                 (colours, -l, -C, -x)   *)
(*                                                                         *)
(* A file name is a sequence of character codes (a C string without its    *)
(* terminating NUL).  Standard output is the sequence of characters        *)
(* written; a colour escape sequence is one negative code.                 *)
(***************************************************************************)
EXTENDS Integers, Sequences, FiniteSets, TLC

VARIABLES
    ver,        \* the version of the program that runs
    args,       \* the option letters given on the command line
    path,       \* the directory named on the command line ("." by default)
    dir,        \* the directory's entries, in readdir order
    flags,      \* main's flag_l, flag_C, flag_x, flag_t, flag_r
    names,      \* the array of names read_filenames hands to main
    listed,     \* names as read_filenames left it (history)
    sorted,     \* names as main's qsort left it (history)
    st_mtime,   \* the modification time of each listed entry
    st,         \* the struct stat lstat fills in for each entry
    lstatFail,  \* the entries whose lstat fails at render time
    term_width, \* what get_terminal_width returned to the renderer
    grid,       \* rows and cols as print_down_then_across computed them
    out,        \* the characters written to standard output
    long_rows,  \* the names of the rows print_long_listing wrote
    errs,       \* the diagnostics written to standard error
    rendered,   \* the renderers main called, in order
    handle,     \* the DIR handle: opendir and closedir calls so far, and the
                \* number of entries readdir has returned
    status,     \* the exit status of the process
    pc          \* where main is

vars == << ver, args, path, dir, flags, names, listed, sorted, st_mtime, st,
           lstatFail, term_width, grid, out, long_rows, errs, rendered,
           handle, status, pc >>

-----------------------------------------------------------------------------
(* Program constants *)

COL_PADDING == 2

DEFAULT_TERM_WIDTH == 80

MAX_FILES == 4096

(* Bounds of the model *)

\* the longest directory of a run of main
MaxEntries == 3

\* the longest listing handed to a renderer on its own
MaxNames == 6

\* the widest terminal ioctl reports
MaxWidth == 12

-----------------------------------------------------------------------------
(* Characters and strings *)

NL == 10

SP == 32

DOT == 46

\* s[i] of a C string, i counted from 0: the terminating NUL past the end
CharAt(s, i) == IF i < Len(s) THEN s[i + 1] ELSE 0

strlen(s) == Len(s)

Sgn(x) == IF x < 0 THEN -1 ELSE IF x > 0 THEN 1 ELSE 0

Max(a, b) == IF a > b THEN a ELSE b

Min(a, b) == IF a < b THEN a ELSE b

tolower(c) == IF c >= 65 /\ c <= 90 THEN c + 32 ELSE c

RECURSIVE StrDiff(_, _, _, _)
\* the difference of the first pair of characters that differ, each
\* lower-cased first if fold
StrDiff(fold, a, b, i) ==
    LET ca == IF fold THEN tolower(CharAt(a, i)) ELSE CharAt(a, i)
        cb == IF fold THEN tolower(CharAt(b, i)) ELSE CharAt(b, i)
    IN  IF ca # cb THEN ca - cb
        ELSE IF ca = 0 THEN 0
        ELSE StrDiff(fold, a, b, i + 1)

strcmp(a, b) == StrDiff(FALSE, a, b, 0)

strcasecmp(a, b) == StrDiff(TRUE, a, b, 0)

Spaces(k) == [i \in 1..k |-> SP]

\* printf("%-*s", w, s): s left-justified in a field of at least w
PadLeftJust(s, w) == s \o Spaces(Max(0, w - Len(s)))

RECURSIVE ConcatUpTo(_, _, _)
\* f[lo] \o f[lo+1] \o ... \o f[hi]
ConcatUpTo(f, lo, hi) ==
    IF lo > hi THEN << >> ELSE f[lo] \o ConcatUpTo(f, lo + 1, hi)

-----------------------------------------------------------------------------
(* Colours (v1.5.0).  An escape sequence is written as one negative code. *)

RESET_COLOR == -1

BLUE_COLOR == -2

GREEN_COLOR == -3

RED_COLOR == -4

MAGENTA_COLOR == -5

REVERSE_VIDEO == -6

\* ".tar", ".gz", ".zip", ".tgz"
EXT_TAR == << 46, 116, 97, 114 >>

EXT_GZ == << 46, 103, 122 >>

EXT_ZIP == << 46, 122, 105, 112 >>

EXT_TGZ == << 46, 116, 103, 122 >>

\* strstr(s, sub) != NULL
strstr(s, sub) ==
    \E k \in 0..(Len(s) - Len(sub)) :
        \A j \in 1..Len(sub) : s[k + j] = sub[j]

ExecBits == { "xusr", "xgrp", "xoth" }

\* What lstat reports of an entry of a listed directory in a run of main: the
\* kind of the file and its permission bits, fixed by the entry's first
\* character.
st_mode(name) ==
    LET k == CharAt(name, 0) % 4
    IN  IF k = 0 THEN [ kind |-> "dir", perm |-> { "rusr", "wusr", "xusr" } ]
        ELSE IF k = 1 THEN [ kind |-> "reg", perm |-> { "rusr", "wusr" } ]
        ELSE IF k = 2 THEN [ kind |-> "reg", perm |-> { "rusr", "xusr", "xgrp" } ]
        ELSE [ kind |-> "lnk", perm |-> { "rusr", "wusr", "xusr" } ]

\* get_color, given whether its lstat succeeded and the mode it read
get_color(lstat_ok, mode, name) ==
    IF ~lstat_ok THEN RESET_COLOR
    ELSE IF mode.kind = "dir" THEN BLUE_COLOR
    ELSE IF mode.kind = "lnk" THEN MAGENTA_COLOR
    ELSE IF mode.kind \in { "chr", "blk", "sock" } THEN REVERSE_VIDEO
    ELSE IF mode.perm \cap ExecBits # {} THEN GREEN_COLOR
    ELSE IF \/ strstr(name, EXT_TAR) \/ strstr(name, EXT_GZ)
            \/ strstr(name, EXT_ZIP) \/ strstr(name, EXT_TGZ)
         THEN RED_COLOR
    ELSE RESET_COLOR

\* the colour a v1.5.0 renderer gets for an entry, bad the entries whose
\* lstat fails
ColorOf(bad, name) == get_color(name \notin bad, st[name], name)

-----------------------------------------------------------------------------
(* Layout engine *)

\* get_terminal_width: ws is -1 when ioctl fails, else winsize.ws_col
get_terminal_width(ws) ==
    IF ws = -1 \/ ws = 0 THEN DEFAULT_TERM_WIDTH ELSE ws

\* the loop "if (strlen(names[i]) > maxlen) maxlen = strlen(names[i])"
RECURSIVE MaxLenFrom(_, _, _)
MaxLenFrom(nm, i, maxlen) ==
    IF i > Len(nm) THEN maxlen
    ELSE MaxLenFrom(nm, i + 1,
                    IF strlen(nm[i]) > maxlen THEN strlen(nm[i]) ELSE maxlen)

maxlen_of(nm) == MaxLenFrom(nm, 1, 0)

col_width_of(nm) ==
    LET w == maxlen_of(nm) + COL_PADDING IN IF w <= 0 THEN 1 ELSE w

\* fit_cols with the padding between columns left out of the column width
fit_cols_no_padding(nm, tw) ==
    LET c == tw \div Max(1, maxlen_of(nm)) IN IF c < 1 THEN 1 ELSE c

\* cols = term_width / col_width; if (cols < 1) cols = 1;
fit_cols(nm, tw) ==
    LET c == tw \div col_width_of(nm) IN IF c < 1 THEN 1 ELSE c

\* rows and cols of print_vertical_columns (v1.2.0)
grid_v120(nm, tw) ==
    LET n    == Len(nm)
        cols == fit_cols(nm, tw)
    IN  [ rows |-> (n + cols - 1) \div cols, cols |-> cols ]

\* rows and cols of print_down_then_across (v1.3.0)
grid_v130(nm, tw) ==
    LET n  == Len(nm)
        c0 == fit_cols(nm, tw)
        c1 == IF c0 > n THEN n ELSE c0
        c2 == IF c1 >= n /\ n > 3 THEN (n + 1) \div 2 ELSE c1
    IN  [ rows |-> (n + c2 - 1) \div c2, cols |-> c2 ]

\* grid_v140 with the number of rows rounded down
grid_v140_rows_floor(nm, tw) ==
    LET n  == Len(nm)
        c0 == fit_cols(nm, tw)
        c1 == IF c0 > n THEN n ELSE c0
        r1 == n \div c1
        r2 == IF r1 = 1 /\ n > 3 THEN (n + 1) \div 2 ELSE r1
        c2 == IF r1 = 1 /\ n > 3 THEN (n + r2 - 1) \div r2 ELSE c1
    IN  [ rows |-> r2, cols |-> c2 ]

\* rows and cols of print_down_then_across (v1.4.0, v1.5.0)
grid_v140(nm, tw) ==
    LET n  == Len(nm)
        c0 == fit_cols(nm, tw)
        c1 == IF c0 > n THEN n ELSE c0
        r1 == (n + c1 - 1) \div c1
        r2 == IF r1 = 1 /\ n > 3 THEN (n + 1) \div 2 ELSE r1
        c2 == IF r1 = 1 /\ n > 3 THEN (n + r2 - 1) \div r2 ELSE c1
    IN  [ rows |-> r2, cols |-> c2 ]

down_across_grid(v, nm, tw) ==
    IF v = "v1.2.0" THEN grid_v120(nm, tw)
    ELSE IF v = "v1.3.0" THEN grid_v130(nm, tw)
    ELSE grid_v140(nm, tw)

\* name_field with the name cut short by a character
name_field_clipped(v, bad, nm, idx) ==
    SubSeq(nm[idx + 1], 1, Len(nm[idx + 1]) - 1)

\* the name field one printf writes: "%-*s", with its colour in v1.5.0
name_field(v, bad, nm, idx) ==
    LET f == PadLeftJust(nm[idx + 1], maxlen_of(nm))
    IN  IF v = "v1.5.0"
        THEN << ColorOf(bad, nm[idx + 1]) >> \o f \o << RESET_COLOR >>
        ELSE f

\* what the body of the inner loop writes for the cell (r, c)
down_across_cell(v, bad, nm, g, r, c) ==
    LET idx == r + c * g.rows
        n   == Len(nm)
        pad == IF c < g.cols - 1 THEN Spaces(COL_PADDING) ELSE << >>
    IN  IF v = "v1.2.0"
        THEN IF idx < n THEN name_field(v, bad, nm, idx) \o pad ELSE << >>
        ELSE (IF idx < n THEN name_field(v, bad, nm, idx) ELSE << >>) \o pad

\* everything print_down_then_across (print_vertical_columns) writes
down_across_out(v, bad, nm, g) ==
    LET Row == [ r \in 0..(g.rows - 1) |->
            LET Cell == [ c \in 0..(g.cols - 1) |->
                            down_across_cell(v, bad, nm, g, r, c) ]
            IN  ConcatUpTo(Cell, 0, g.cols - 1) \o << NL >> ]
    IN  IF Len(nm) = 0 THEN << >> ELSE ConcatUpTo(Row, 0, g.rows - 1)

RECURSIVE across_then_down_loop(_, _, _, _, _)
\* the loop of print_across_then_down (v1.3.0), from entry i on
across_then_down_loop(nm, cols, i, cur_col, acc) ==
    LET n == Len(nm) IN
    IF i >= n THEN acc
    ELSE LET f == PadLeftJust(nm[i + 1], maxlen_of(nm))
             c == cur_col + 1
         IN  IF c >= cols \/ i = n - 1
             THEN across_then_down_loop(nm, cols, i + 1, 0, acc \o f \o << NL >>)
             ELSE across_then_down_loop(nm, cols, i + 1, c,
                                        acc \o f \o Spaces(COL_PADDING))

RECURSIVE horizontal_across_loop(_, _, _, _, _, _, _)
\* the loop of print_horizontal_across (v1.4.0, v1.5.0), from entry i on
horizontal_across_loop(v, bad, nm, tw, i, current_width, acc) ==
    LET n      == Len(nm)
        needed == IF v = "v1.5.0" THEN maxlen_of(nm) + COL_PADDING
                  ELSE col_width_of(nm)
    IN  IF i >= n THEN acc \o << NL >>
        ELSE LET wrap == current_width + needed > tw
                 cw   == IF wrap THEN 0 ELSE current_width
                 nl   == IF wrap THEN << NL >> ELSE << >>
             IN  horizontal_across_loop(v, bad, nm, tw, i + 1, cw + needed,
                     acc \o nl \o name_field(v, bad, nm, i))

\* everything the -x renderer writes
across_down_out(v, bad, nm, tw) ==
    IF Len(nm) = 0 THEN << >>
    ELSE IF v = "v1.3.0"
    THEN across_then_down_loop(nm, fit_cols(nm, tw), 0, 0, << >>)
    ELSE horizontal_across_loop(v, bad, nm, tw, 0, 0, << >>)

\* the one-name-per-line listing
simple_out(v, bad, nm) ==
    LET Line == [ i \in 1..Len(nm) |->
            IF v = "v1.5.0"
            THEN << ColorOf(bad, nm[i]) >> \o nm[i] \o << RESET_COLOR, NL >>
            ELSE nm[i] \o << NL >> ]
    IN  ConcatUpTo(Line, 1, Len(nm))

-----------------------------------------------------------------------------
(* Sorting *)

Range(s) == { s[i] : i \in 1..Len(s) }

\* where x is in a sequence without repetitions
IndexOf(sq, x) == CHOOSE i \in 1..Len(sq) : sq[i] = x

\* the arrangements of the elements of s (all distinct)
Permutations_of(s) ==
    { p \in [ 1..Len(s) -> Range(s) ] : Range(p) = Range(s) }

\* A comparator is written as the table of its results, cmp[a, b], on the
\* elements it is called with.

\* cmp orders S the way qsort requires of its comparator
ConsistentOn(S, cmp) ==
    /\ \A a, b \in S : Sgn(cmp[a, b]) = -Sgn(cmp[b, a])
    /\ \A a, b, c \in S :
          (cmp[a, b] <= 0 /\ cmp[b, c] <= 0) => cmp[a, c] <= 0
    /\ \A a, b, c \in S :
          (cmp[a, b] = 0 /\ cmp[b, c] = 0) => cmp[a, c] = 0

SortedBy(p, cmp) ==
    \A i, j \in 1..Len(p) : i < j => cmp[p[i], p[j]] <= 0

\* What qsort may leave in the array.  Elements that compare equal come out
\* in an unspecified order; with a comparator that is not a consistent
\* ordering the behaviour is undefined and any arrangement may come out.
qsort(s, cmp) ==
    IF ConsistentOn(Range(s), cmp)
    THEN { p \in Permutations_of(s) : SortedBy(p, cmp) }
    ELSE Permutations_of(s)

\* A time_t is hi * 2^31 + lo, with 0 <= lo < 2^31.
\* (int)(tb - ta): the low 32 bits of the 64-bit difference, as a signed int
time_diff_as_int(tb, ta) ==
    LET dh == tb.hi - ta.hi
        dl == tb.lo - ta.lo
    IN  IF dh % 2 = 0 THEN dl
        ELSE IF dl >= 0 THEN (-2147483647 - 1) + dl
        ELSE 2147483647 + (dl + 1)

\* the files of the working directory, when it is not the listed directory:
\* a file named "a" last modified at time 1 and a file named "b" at time 2
CwdFiles ==
    [ n \in { << 97 >>, << 98 >> } |->
        IF n = << 97 >> THEN [ hi |-> 0, lo |-> 1 ] ELSE [ hi |-> 0, lo |-> 2 ] ]

\* stat(name) as cmp_mtime calls it: the name alone, so it is resolved in the
\* working directory.  p is the listed directory, mt its entries' times.
stat_name(p, mt, name) ==
    IF p = "."
    THEN [ ok |-> TRUE, st_mtime |-> mt[name] ]
    ELSE IF name \in DOMAIN CwdFiles
    THEN [ ok |-> TRUE, st_mtime |-> CwdFiles[name] ]
    ELSE [ ok |-> FALSE, st_mtime |-> [ hi |-> 0, lo |-> 0 ] ]

cmp_mtime(p, mt, a, b) ==
    LET sa == stat_name(p, mt, a)
        sb == stat_name(p, mt, b)
    IN  IF ~sa.ok THEN 0
        ELSE IF ~sb.ok THEN 0
        ELSE IF sa.st_mtime = sb.st_mtime THEN strcmp(a, b)
        ELSE time_diff_as_int(sb.st_mtime, sa.st_mtime)

\* cmp_names on the names of S: strcasecmp in v1.5.0, strcmp before it
cmp_names(v, S) ==
    [ ab \in S \X S |-> IF v = "v1.5.0" THEN strcasecmp(ab[1], ab[2])
                        ELSE strcmp(ab[1], ab[2]) ]

\* cmp_mtime on the names of S
cmp_mtime_on(p, mt, S) == [ ab \in S \X S |-> cmp_mtime(p, mt, ab[1], ab[2]) ]

RECURSIVE reverse_loop(_, _)
\* main's loop "for (i = 0; i < n / 2; i++) swap names[i], names[n-1-i]"
reverse_loop(nm, i) ==
    LET n == Len(nm) IN
    IF i >= n \div 2 THEN nm
    ELSE reverse_loop([ nm EXCEPT ![i + 1] = nm[n - i], ![n - i] = nm[i + 1] ],
                      i + 1)

reverse_pass(nm) == reverse_loop(nm, 0)

-----------------------------------------------------------------------------
(* The directory and the command line *)

Versions == { "v1.2.0", "v1.3.0", "v1.4.0", "v1.5.0" }

Opts == { "l", "C", "x", "t", "r" }

OptOrder == << "l", "C", "x", "t", "r" >>

\* the option string each version gives getopt
optstring(v) ==
    IF v = "v1.2.0" THEN { "l", "C" }
    ELSE IF v = "v1.4.0" THEN { "l", "C", "x", "t", "r" }
    ELSE { "l", "C", "x" }

\* ".a", "a", "B", "b"
EntryNames == { << 46, 97 >>, << 97 >>, << 66 >>, << 98 >> }

\* directories of a run of main: distinct entries in any readdir order
Dirs ==
    UNION { { d \in [ 1..k -> EntryNames ] :
                \A i, j \in 1..k : i # j => d[i] # d[j] } : k \in 0..MaxEntries }

Paths == { ".", "sub", "missing" }

\* 1, 2 and 2^31 + 1 seconds after the epoch
Times == { [ hi |-> 0, lo |-> 1 ], [ hi |-> 0, lo |-> 2 ], [ hi |-> 1, lo |-> 1 ] }

NoFlags == [ o \in Opts |-> FALSE ]

NoGrid == [ rows |-> 0, cols |-> 0 ]

NoHandle == [ opened |-> 0, closed |-> 0, pos |-> 0 ]

\* opendir succeeds
opendir(h) == [ h EXCEPT !.opened = @ + 1 ]

\* closedir left out
closedir_left_out(h) == h

closedir(h) == [ h EXCEPT !.closed = @ + 1 ]

\* the handle of a directory of n entries read to its end and closed
ReadAndClosed(n) == closedir([ opendir(NoHandle) EXCEPT !.pos = n ])

\* "(null)", what printf writes for a null pointer given to %s
NULL_SHOWN == << 40, 110, 117, 108, 108, 41 >>

Diag(src, what) == [ src |-> src, what |-> what ]

-----------------------------------------------------------------------------
(* read_filenames *)

\* is_hidden with the test of the first character left out
is_hidden_never(d_name) == FALSE

\* if (entry->d_name[0] == '.') continue;
is_hidden(d_name) == CharAt(d_name, 0) = DOT

\* while ((entry = readdir(dir)) != NULL && count < MAX_FILES): from entry i
\* on, with acc read so far, the entries that are not hidden are appended
\* until the directory ends or the array holds MAX_FILES names
read_loop(d, i, acc) ==
    LET rest == SelectSeq(SubSeq(d, i, Len(d)), LAMBDA e : ~is_hidden(e))
    IN  acc \o SubSeq(rest, 1, Min(Len(rest), MAX_FILES - Len(acc)))

\* how many entries readdir has returned when the loop ends: all of them, or,
\* the array being full, those up to the one read after it filled
read_pos(d) ==
    LET got == read_loop(d, 1, << >>)
    IN  IF Len(got) < MAX_FILES THEN Len(d)
        ELSE Min(Len(d), IndexOf(d, got[MAX_FILES]) + 1)

\* the arrays read_filenames may hand back for the directory d: v1.3.0 sorts
\* them with strcmp, v1.5.0 with strcasecmp, v1.2.0 and v1.4.0 leave them in
\* readdir order
read_filenames(v, d) ==
    LET got == read_loop(d, 1, << >>)
    IN  IF v \in { "v1.3.0", "v1.5.0" }
        THEN qsort(got, cmp_names(v, Range(got)))
        ELSE { got }

-----------------------------------------------------------------------------
(* print_long_listing *)

\* "alice", "staff"
NAME_ALICE == << 97, 108, 105, 99, 101 >>

NAME_STAFF == << 115, 116, 97, 102, 102 >>

\* getpwuid / getgrgid: the entry found, or NULL
Found(name) == [ ok |-> TRUE, name |-> name ]

NotFound == [ ok |-> FALSE, name |-> << >> ]

\* the struct stat of an entry of a run of main, with what getpwuid, getgrgid
\* and localtime make of it: kind and permission bits as st_mode gives them,
\* one link, alice, staff, 0 bytes, Jan 01 00:00
lstat_run(name) ==
    [ kind     |-> st_mode(name).kind,
      perm     |-> st_mode(name).perm,
      st_nlink |-> 1,
      pw       |-> Found(NAME_ALICE),
      gr       |-> Found(NAME_STAFF),
      st_size  |-> 0,
      tm       |-> [ tm_mon |-> 0, tm_mday |-> 1, tm_hour |-> 0, tm_min |-> 0 ] ]

\* the first character of a row: 'd' 'l' 'c' 'b' 'p' 's' '-' in v1.2.0,
\* 'd' or '-' from v1.3.0 on
type_char(v, kind) ==
    IF v = "v1.2.0"
    THEN IF kind = "dir" THEN 100
         ELSE IF kind = "lnk" THEN 108
         ELSE IF kind = "chr" THEN 99
         ELSE IF kind = "blk" THEN 98
         ELSE IF kind = "fifo" THEN 112
         ELSE IF kind = "sock" THEN 115
         ELSE 45
    ELSE IF kind = "dir" THEN 100 ELSE 45

\* (st.st_mode & S_IRUSR) ? 'r' : '-', and so on for the nine bits
perm_chars(perm) ==
    << IF "rusr" \in perm THEN 114 ELSE 45,
       IF "wusr" \in perm THEN 119 ELSE 45,
       IF "xusr" \in perm THEN 120 ELSE 45,
       IF "rgrp" \in perm THEN 114 ELSE 45,
       IF "wgrp" \in perm THEN 119 ELSE 45,
       IF "xgrp" \in perm THEN 120 ELSE 45,
       IF "roth" \in perm THEN 114 ELSE 45,
       IF "woth" \in perm THEN 119 ELSE 45,
       IF "xoth" \in perm THEN 120 ELSE 45 >>

RECURSIVE Digits(_)
\* the decimal digits of n >= 0, as "%ld" writes them
Digits(n) ==
    IF n < 10 THEN << 48 + n >> ELSE Digits(n \div 10) \o << 48 + (n % 10) >>

\* PadRightJust with the field width ignored
PadRightJust_no_width(ds, w) == ds

\* printf("%*ld", w, n): n right-justified in a field of at least w
PadRightJust(ds, w) == Spaces(Max(0, w - Len(ds))) \o ds

\* "%b" in the C locale
MonthAbbrev ==
    << << 74, 97, 110 >>, << 70, 101, 98 >>, << 77, 97, 114 >>,
       << 65, 112, 114 >>, << 77, 97, 121 >>, << 74, 117, 110 >>,
       << 74, 117, 108 >>, << 65, 117, 103 >>, << 83, 101, 112 >>,
       << 79, 99, 116 >>, << 78, 111, 118 >>, << 68, 101, 99 >> >>

\* "%d", "%H", "%M": two digits, zero-padded
TwoDigits(n) == << 48 + (n \div 10), 48 + (n % 10) >>

\* strftime(timebuf, sizeof(timebuf), "%b %d %H:%M", tm)
strftime(tm) ==
    MonthAbbrev[tm.tm_mon + 1] \o << SP >> \o TwoDigits(tm.tm_mday) \o << SP >>
        \o TwoDigits(tm.tm_hour) \o << 58 >> \o TwoDigits(tm.tm_min)

\* pw ? pw->pw_name : "?"   ("unknown" in v1.2.0)
name_or_unknown(v, p) ==
    IF p.ok THEN p.name
    ELSE IF v = "v1.2.0" THEN << 117, 110, 107, 110, 111, 119, 110 >>
    ELSE << 63 >>

\* the row print_long_listing writes for an entry whose lstat filled in s:
\* the ten characters, then " %2ld %-8s %-8s %8ld %s %s\n"
long_row(v, s, name) ==
    << type_char(v, s.kind) >> \o perm_chars(s.perm)
        \o << SP >> \o PadRightJust(Digits(s.st_nlink), 2)
        \o << SP >> \o PadLeftJust(name_or_unknown(v, s.pw), 8)
        \o << SP >> \o PadLeftJust(name_or_unknown(v, s.gr), 8)
        \o << SP >> \o PadRightJust(Digits(s.st_size), 8)
        \o << SP >> \o strftime(s.tm)
        \o << SP >>
        \o (IF v = "v1.5.0"
            THEN << get_color(TRUE, s, name) >> \o name \o << RESET_COLOR >>
            ELSE name)
        \o << NL >>

\* everything print_long_listing writes to standard output
long_listing_out(v, bad, nm) ==
    LET Row == [ i \in 1..Len(nm) |->
                    IF nm[i] \in bad THEN << >>
                    ELSE long_row(v, st[nm[i]], nm[i]) ]
    IN  ConcatUpTo(Row, 1, Len(nm))

RECURSIVE long_listing_loop_break(_, _, _, _)
\* long_listing_loop with "break" in place of "continue"
long_listing_loop_break(nm, bad, i, acc) ==
    IF i > Len(nm) THEN acc
    ELSE IF nm[i] \in bad THEN acc
    ELSE long_listing_loop_break(nm, bad, i + 1, Append(acc, nm[i]))

RECURSIVE long_listing_loop(_, _, _, _)
\* the entries, from i on, that get a row: those whose lstat succeeds
long_listing_loop(nm, bad, i, acc) ==
    IF i > Len(nm) THEN acc
    ELSE IF nm[i] \in bad THEN long_listing_loop(nm, bad, i + 1, acc)
    ELSE long_listing_loop(nm, bad, i + 1, Append(acc, nm[i]))

RECURSIVE long_listing_errs(_, _, _, _)
\* the diagnostics, from i on: one perror per entry whose lstat fails
long_listing_errs(nm, bad, i, acc) ==
    IF i > Len(nm) THEN acc
    ELSE IF nm[i] \in bad
    THEN long_listing_errs(nm, bad, i + 1, Append(acc, Diag("lstat", nm[i])))
    ELSE long_listing_errs(nm, bad, i + 1, acc)

-----------------------------------------------------------------------------
(* main *)

\* the flags the getopt loop leaves set; an option the version does not know
\* falls to "default: break"
getopt_flags(v, given) == [ o \in Opts |-> o \in given /\ o \in optstring(v) ]

\* getopt's own complaint about each option it does not know
getopt_errs(v, given) ==
    LET Unknown(o) == o \in given /\ o \notin optstring(v)
        Line == [ i \in 1..Len(OptOrder) |->
                    IF Unknown(OptOrder[i])
                    THEN << Diag("getopt", << >>) >> ELSE << >> ]
    IN  ConcatUpTo(Line, 1, Len(OptOrder))

\* main_renderer with -C tested before -x
main_renderer_C_first(v, f) ==
    IF f["l"] THEN "Long"
    ELSE IF f["C"] THEN "DownAcross"
    ELSE IF v # "v1.2.0" /\ f["x"] THEN "AcrossDown"
    ELSE IF v = "v1.3.0" THEN "DownAcross"
    ELSE "SingleColumn"

\* the if / else-if chain that ends main
main_renderer(v, f) ==
    IF v = "v1.2.0"
    THEN IF f["l"] THEN "Long"
         ELSE IF f["C"] THEN "DownAcross"
         ELSE "SingleColumn"
    ELSE IF v = "v1.3.0"
    THEN IF f["l"] THEN "Long"
         ELSE IF f["x"] THEN "AcrossDown"
         ELSE "DownAcross"
    ELSE IF f["l"] THEN "Long"
         ELSE IF f["x"] THEN "AcrossDown"
         ELSE IF f["C"] THEN "DownAcross"
         ELSE "SingleColumn"

\* the sort main does (v1.4.0): by cmp_mtime with -t, else by cmp_names
main_qsort(f, p, mt, nm) ==
    IF f["t"]
    THEN qsort(nm, cmp_mtime_on(p, mt, Range(nm)))
    ELSE qsort(nm, cmp_names("v1.4.0", Range(nm)))

\* the reversal main does (v1.4.0)
main_reverse_names(f, nm) == IF f["r"] THEN reverse_pass(nm) ELSE nm

main_getopt ==
    /\ pc = "getopt"
    /\ flags' = getopt_flags(ver, args)
    /\ errs' = errs \o getopt_errs(ver, args)
    /\ pc' = "read"
    /\ UNCHANGED << st, ver, args, path, dir, names, listed, sorted, st_mtime,
                    lstatFail, term_width, grid, out, long_rows, rendered,
                    handle, status >>

\* read_filenames when opendir fails; main then returns 0
main_read_opendir_fails ==
    /\ pc = "read"
    /\ path = "missing"
    /\ errs' = Append(errs, Diag("opendir", << >>))
    /\ names' = << >>
    /\ status' = 0
    /\ pc' = "done"
    /\ UNCHANGED << st, ver, args, path, dir, flags, listed, sorted, st_mtime,
                    lstatFail, term_width, grid, out, long_rows, rendered,
                    handle >>

\* read_filenames: opendir succeeds
main_read_opendir ==
    /\ pc = "read"
    /\ path # "missing"
    /\ handle' = opendir(handle)
    /\ pc' = "reading"
    /\ UNCHANGED << st, ver, args, path, dir, flags, names, listed, sorted,
                    st_mtime, lstatFail, term_width, grid, out, long_rows,
                    errs, rendered, status >>

\* read_filenames when malloc fails; main then returns 0
main_read_malloc_fails ==
    /\ pc = "reading"
    /\ errs' = Append(errs, Diag("malloc", << >>))
    /\ handle' = closedir(handle)
    /\ names' = << >>
    /\ status' = 0
    /\ pc' = "done"
    /\ UNCHANGED << st, ver, args, path, dir, flags, listed, sorted, st_mtime,
                    lstatFail, term_width, grid, out, long_rows, rendered >>

\* read_filenames of v1.2.0 when strdup fails for the k-th entry that is not
\* hidden: perror, break, closedir, and the names before it are returned
main_read_strdup_fails ==
    /\ pc = "reading"
    /\ ver = "v1.2.0"
    /\ LET all == read_loop(dir, 1, << >>)
       IN  \E k \in 1..Len(all) :
              LET got == SubSeq(all, 1, k - 1)
              IN  /\ names' = got
                  /\ listed' = got
                  /\ sorted' = got
                  /\ handle' = closedir([ handle EXCEPT !.pos = IndexOf(dir, all[k]) ])
                  /\ IF Len(got) <= 0
                     THEN status' = 0 /\ pc' = "done"
                     ELSE status' = status /\ pc' = "display"
    /\ errs' = Append(errs, Diag("strdup", << >>))
    /\ UNCHANGED << st, ver, args, path, dir, flags, st_mtime, lstatFail,
                    term_width, grid, out, long_rows, rendered >>

\* read_filenames from v1.3.0 on when strdup fails for an entry: the null
\* pointer is stored, the loop goes on and the handle is closed.  The first
\* use of the null pointer (strcmp in qsort, strlen or printf in a renderer)
\* is undefined: the process is killed by SIGSEGV, or it ends with status 0
\* having written nothing, a diagnostic, or "(null)" in place of the name.
main_read_strdup_unchecked ==
    /\ pc = "reading"
    /\ ver \in { "v1.3.0", "v1.4.0", "v1.5.0" }
    /\ Len(read_loop(dir, 1, << >>)) >= 1
    /\ handle' = closedir([ handle EXCEPT !.pos = read_pos(dir) ])
    /\ \/ status' = 139 /\ UNCHANGED << out, errs >>
       \/ status' = 0 /\ UNCHANGED << out, errs >>
       \/ status' = 0 /\ out' = out \o NULL_SHOWN \o << NL >> /\ UNCHANGED errs
       \/ status' = 0 /\ errs' = Append(errs, Diag("lstat", NULL_SHOWN))
                      /\ UNCHANGED out
    /\ pc' = "undefined"
    /\ UNCHANGED << st, ver, args, path, dir, flags, names, listed, sorted,
                    st_mtime, lstatFail, term_width, grid, long_rows, rendered >>

\* read_filenames when it succeeds, and main's "if (n <= 0) return 0"
main_read_filenames ==
    /\ pc = "reading"
    /\ \E got \in read_filenames(ver, dir) :
          /\ names' = got
          /\ listed' = got
          /\ sorted' = got
          /\ IF Len(got) <= 0
             THEN status' = 0 /\ pc' = "done"
             ELSE status' = status
                  /\ pc' = IF ver = "v1.4.0" THEN "sort" ELSE "display"
    /\ handle' = closedir([ handle EXCEPT !.pos = read_pos(dir) ])
    /\ UNCHANGED << st, ver, args, path, dir, flags, st_mtime, lstatFail,
                    term_width, grid, out, long_rows, errs, rendered >>

\* main's qsort (v1.4.0): the times are those the entries have
main_sort ==
    /\ pc = "sort"
    /\ \E mt \in [ Range(names) -> Times ] :
          /\ flags["t"] \/ \A n \in Range(names) : mt[n] = [ hi |-> 0, lo |-> 1 ]
          /\ st_mtime' = mt
          /\ \E s \in main_qsort(flags, path, mt, names) :
                names' = s /\ sorted' = s
    /\ pc' = "reverse"
    /\ UNCHANGED << st, ver, args, path, dir, flags, listed, lstatFail,
                    term_width, grid, out, long_rows, errs, rendered, handle,
                    status >>

\* main's reversal (v1.4.0)
main_reverse ==
    /\ pc = "reverse"
    /\ names' = main_reverse_names(flags, names)
    /\ pc' = "display"
    /\ UNCHANGED << st, ver, args, path, dir, flags, listed, sorted, st_mtime,
                    lstatFail, term_width, grid, out, long_rows, errs,
                    rendered, handle, status >>

\* main calls print_long_listing, lstat failing for the entries of bad, then
\* frees the names and returns 0 (so do the three actions that follow)
call_print_long_listing(Bads) ==
    /\ pc = "display"
    /\ main_renderer(ver, flags) = "Long"
    /\ \E bad \in Bads :
          /\ lstatFail' = bad
          /\ long_rows' = long_listing_loop(names, bad, 1, << >>)
          /\ out' = out \o long_listing_out(ver, bad, names)
          /\ errs' = long_listing_errs(names, bad, 1, errs)
    /\ rendered' = Append(rendered, "Long")
    /\ status' = 0
    /\ pc' = "done"
    /\ UNCHANGED << st, ver, args, path, dir, flags, names, listed, sorted,
                    st_mtime, term_width, grid, handle >>

\* main calls print_down_then_across (print_vertical_columns in v1.2.0)
call_print_down_then_across(Bads, Winsizes) ==
    /\ pc = "display"
    /\ main_renderer(ver, flags) = "DownAcross"
    /\ \E bad \in (IF ver = "v1.5.0" THEN Bads ELSE { {} }), ws \in Winsizes :
          LET tw == get_terminal_width(ws)
              g  == down_across_grid(ver, names, tw)
          IN  IF Len(names) = 0            \* if (n == 0) return;
              THEN UNCHANGED << lstatFail, term_width, grid, out >>
              ELSE /\ lstatFail' = bad
                   /\ term_width' = tw
                   /\ grid' = g
                   /\ out' = out \o down_across_out(ver, bad, names, g)
    /\ rendered' = Append(rendered, "DownAcross")
    /\ status' = 0
    /\ pc' = "done"
    /\ UNCHANGED << st, ver, args, path, dir, flags, names, listed, sorted,
                    st_mtime, long_rows, errs, handle >>

\* main calls print_horizontal_across (print_across_then_down in v1.3.0)
call_print_horizontal_across(Bads, Winsizes) ==
    /\ pc = "display"
    /\ main_renderer(ver, flags) = "AcrossDown"
    /\ \E bad \in (IF ver = "v1.5.0" THEN Bads ELSE { {} }), ws \in Winsizes :
          LET tw == get_terminal_width(ws)
          IN  IF Len(names) = 0            \* if (n == 0) return;
              THEN UNCHANGED << lstatFail, term_width, out >>
              ELSE /\ lstatFail' = bad
                   /\ term_width' = tw
                   /\ out' = out \o across_down_out(ver, bad, names, tw)
    /\ rendered' = Append(rendered, "AcrossDown")
    /\ status' = 0
    /\ pc' = "done"
    /\ UNCHANGED << st, ver, args, path, dir, flags, names, listed, sorted,
                    st_mtime, grid, long_rows, errs, handle >>

\* main prints one name per line
call_print_simple(Bads) ==
    /\ pc = "display"
    /\ main_renderer(ver, flags) = "SingleColumn"
    /\ \E bad \in (IF ver = "v1.5.0" THEN Bads ELSE { {} }) :
          /\ lstatFail' = bad
          /\ out' = out \o simple_out(ver, bad, names)
    /\ rendered' = Append(rendered, "SingleColumn")
    /\ status' = 0
    /\ pc' = "done"
    /\ UNCHANGED << st, ver, args, path, dir, flags, names, listed, sorted,
                    st_mtime, term_width, grid, long_rows, errs, handle >>

-----------------------------------------------------------------------------
(* A run of main on a directory *)

\* lstat may fail for any of the entries
AnyLstatFails == SUBSET Range(names)

\* ioctl fails, or reports 4 columns
RunWinsizes == { -1, 4 }

Init ==
    /\ ver \in Versions
    /\ args \in SUBSET Opts
    /\ path \in Paths
    /\ dir \in Dirs
    /\ path = "missing" => dir = << >>
    /\ flags = NoFlags
    /\ names = << >>
    /\ listed = << >>
    /\ sorted = << >>
    /\ st_mtime = << >>
    /\ st = [ n \in Range(dir) |-> lstat_run(n) ]
    /\ lstatFail = {}
    /\ term_width = 0
    /\ grid = NoGrid
    /\ out = << >>
    /\ long_rows = << >>
    /\ errs = << >>
    /\ rendered = << >>
    /\ handle = NoHandle
    /\ status = -1
    /\ pc = "getopt"

Next ==
    \/ main_getopt
    \/ main_read_opendir_fails
    \/ main_read_opendir
    \/ main_read_malloc_fails
    \/ main_read_strdup_fails
    \/ main_read_strdup_unchecked
    \/ main_read_filenames
    \/ main_sort
    \/ main_reverse
    \/ call_print_long_listing(AnyLstatFails)
    \/ call_print_down_then_across(AnyLstatFails, RunWinsizes)
    \/ call_print_horizontal_across(AnyLstatFails, RunWinsizes)
    \/ call_print_simple(AnyLstatFails)

Spec == Init /\ [][Next]_vars

----------------------------------------------------------------------------
\* ls-v1.1.0: main lists the current directory itself, writing each entry as
\* readdir returns it.  args is {"l"} when argv[1] is "-l"; path "missing"
\* stands for a current directory that opendir cannot open.

\* opendir(".") fails: perror, return 1
main_v110_opendir_fails ==
    /\ pc = "v110_main"
    /\ path = "missing"
    /\ errs' = Append(errs, Diag("opendir", << >>))
    /\ status' = 1
    /\ pc' = "done"
    /\ UNCHANGED << st, ver, args, path, dir, flags, names, listed, sorted,
                    st_mtime, lstatFail, term_width, grid, out, long_rows,
                    rendered, handle >>

\* the test of argv[1], and opendir(".") succeeding
main_v110_opendir ==
    /\ pc = "v110_main"
    /\ path # "missing"
    /\ flags' = [ NoFlags EXCEPT !["l"] = ("l" \in args) ]
    /\ handle' = opendir(handle)
    /\ pc' = "v110_loop"
    /\ UNCHANGED << st, ver, args, path, dir, names, listed, sorted, st_mtime,
                    lstatFail, term_width, grid, out, long_rows, errs,
                    rendered, status >>

\* one turn of the while loop: readdir returns the next entry, which is
\* skipped if hidden, and otherwise written by print_long_listing (where
\* stat may fail: perror("stat"), return) or by printf("%s\n")
main_v110_readdir ==
    /\ pc = "v110_loop"
    /\ handle.pos < Len(dir)
    /\ handle' = [ handle EXCEPT !.pos = @ + 1 ]
    /\ LET d_name == dir[handle.pos + 1]
       IN  IF is_hidden(d_name)
           THEN UNCHANGED << out, errs, lstatFail >>
           ELSE IF flags["l"]
           THEN \/ /\ errs' = Append(errs, Diag("stat", << >>))
                   /\ lstatFail' = lstatFail \cup { d_name }
                   /\ UNCHANGED out
                \/ /\ out' = out \o long_row(ver, st[d_name], d_name)
                   /\ UNCHANGED << errs, lstatFail >>
           ELSE /\ out' = out \o d_name \o << NL >>
                /\ UNCHANGED << errs, lstatFail >>
    /\ UNCHANGED << st, ver, args, path, dir, flags, names, listed, sorted,
                    st_mtime, term_width, grid, long_rows, rendered, status,
                    pc >>

\* readdir returns NULL: closedir, return 0
main_v110_closedir ==
    /\ pc = "v110_loop"
    /\ handle.pos = Len(dir)
    /\ handle' = closedir(handle)
    /\ status' = 0
    /\ pc' = "done"
    /\ UNCHANGED << st, ver, args, path, dir, flags, names, listed, sorted,
                    st_mtime, lstatFail, term_width, grid, out, long_rows,
                    errs, rendered >>

\* a run of any version, ls-v1.1.0 included
HandleInit ==
    \/ Init
    \/ /\ ver = "v1.1.0"
       /\ args \in { {}, { "l" } }
       /\ path \in { ".", "missing" }
       /\ dir \in Dirs
       /\ path = "missing" => dir = << >>
       /\ flags = NoFlags
       /\ names = << >>
       /\ listed = << >>
       /\ sorted = << >>
       /\ st_mtime = << >>
       /\ st = [ n \in Range(dir) |-> lstat_run(n) ]
       /\ lstatFail = {}
       /\ term_width = 0
       /\ grid = NoGrid
       /\ out = << >>
       /\ long_rows = << >>
       /\ errs = << >>
       /\ rendered = << >>
       /\ handle = NoHandle
       /\ status = -1
       /\ pc = "v110_main"

HandleNext ==
    \/ Next
    \/ main_v110_opendir_fails
    \/ main_v110_opendir
    \/ main_v110_readdir
    \/ main_v110_closedir

HandleSpec == HandleInit /\ [][HandleNext]_vars

-----------------------------------------------------------------------------
(* The renderers on their own, on listings of names of several lengths *)

\* the k-th name: 1 to 3 copies of the k-th letter
LayoutName(k) == [ i \in 1..((k % 3) + 1) |-> 96 + k ]

RECURSIVE PickNames(_, _)
\* the names whose number is in S, in ascending order
PickNames(S, k) ==
    IF k > MaxNames THEN << >>
    ELSE (IF k \in S THEN << LayoutName(k) >> ELSE << >>) \o PickNames(S, k + 1)

Listings == { PickNames(S, 1) : S \in SUBSET (1..MaxNames) }

\* ioctl fails, or reports 0 to MaxWidth columns
LayoutWinsizes == { -1 } \cup (0..MaxWidth)

\* every lstat succeeds, or that of the first entry fails
FirstLstatFails ==
    { {} } \cup (IF names = << >> THEN {} ELSE { { names[1] } })

LayoutInit ==
    /\ ver \in Versions
    /\ args \in SUBSET { "C", "x" }
    /\ path = "."
    /\ names \in Listings
    /\ dir = names
    /\ flags = getopt_flags(ver, args)
    /\ listed = names
    /\ sorted = names
    /\ st_mtime = << >>
    /\ st = [ n \in Range(dir) |-> lstat_run(n) ]
    /\ lstatFail = {}
    /\ term_width = 0
    /\ grid = NoGrid
    /\ out = << >>
    /\ long_rows = << >>
    /\ errs = << >>
    /\ rendered = << >>
    /\ handle = ReadAndClosed(Len(dir))
    /\ status = -1
    /\ pc = "display"

LayoutNext ==
    \/ call_print_down_then_across(FirstLstatFails, LayoutWinsizes)
    \/ call_print_horizontal_across(FirstLstatFails, LayoutWinsizes)
    \/ call_print_simple(FirstLstatFails)

LayoutSpec == LayoutInit /\ [][LayoutNext]_vars

-----------------------------------------------------------------------------
(* The long listing and the colours, on one entry of every kind *)

StatKinds == { "dir", "lnk", "chr", "blk", "fifo", "sock", "reg" }

PermBits == { "rusr", "wusr", "xusr", "rgrp", "wgrp", "xgrp", "roth", "woth", "xoth" }

\* rwxr-xr-x
PERM_755 == PermBits \ { "wgrp", "woth" }

\* no bit, each bit alone, rw-r--r--, rwxr-xr-x, every bit
PermSamples ==
    { {} } \cup { { b } : b \in PermBits }
           \cup { { "rusr", "wusr", "rgrp", "roth" }, PERM_755, PermBits }

\* "a", "a.tar", "a.gz", "a.zip", "a.tgz", and "a.gzb", "a.tar.b", which hold
\* an archive extension without ending in it
ColorNames ==
    { << 97 >>,
      << 97, 46, 116, 97, 114 >>,
      << 97, 46, 103, 122 >>,
      << 97, 46, 122, 105, 112 >>,
      << 97, 46, 116, 103, 122 >>,
      << 97, 46, 103, 122, 98 >>,
      << 97, 46, 116, 97, 114, 46, 98 >> }

\* Mar 05 14:30, Dec 31 23:59, Jan 01 00:00
TmSamples ==
    { [ tm_mon |-> 2, tm_mday |-> 5, tm_hour |-> 14, tm_min |-> 30 ],
      [ tm_mon |-> 11, tm_mday |-> 31, tm_hour |-> 23, tm_min |-> 59 ],
      [ tm_mon |-> 0, tm_mday |-> 1, tm_hour |-> 0, tm_min |-> 0 ] }

\* alice, a name of nine characters, no passwd entry
PwSamples == { Found(NAME_ALICE), Found(NAME_ALICE \o << 49, 50, 51, 52 >>), NotFound }

GrSamples == { Found(NAME_STAFF), NotFound }

\* every kind with every sample of permission bits, and a directory rwxr-xr-x
\* with every sample of the other fields
StatSamples ==
    [ kind : StatKinds, perm : PermSamples, st_nlink : { 1 },
      pw : { Found(NAME_ALICE) }, gr : { Found(NAME_STAFF) }, st_size : { 0 },
      tm : { [ tm_mon |-> 0, tm_mday |-> 1, tm_hour |-> 0, tm_min |-> 0 ] } ]
    \cup
    [ kind : { "dir" }, perm : { PERM_755 }, st_nlink : { 1, 2, 12, 123 },
      pw : PwSamples, gr : GrSamples, st_size : { 0, 4096, 123456789 },
      tm : TmSamples ]

EntryInit ==
    /\ ver \in Versions
    /\ args \in { {}, { "l" } }
    /\ path = "."
    /\ names \in { << n >> : n \in ColorNames }
    /\ dir = names
    /\ flags = getopt_flags(ver, args)
    /\ listed = names
    /\ sorted = names
    /\ st_mtime = << >>
    /\ st \in [ Range(names) -> StatSamples ]
    /\ lstatFail = {}
    /\ term_width = 0
    /\ grid = NoGrid
    /\ out = << >>
    /\ long_rows = << >>
    /\ errs = << >>
    /\ rendered = << >>
    /\ handle = ReadAndClosed(Len(dir))
    /\ status = -1
    /\ pc = "display"

EntryNext ==
    \/ call_print_long_listing(FirstLstatFails)
    \/ call_print_down_then_across(FirstLstatFails, { -1 })
    \/ call_print_simple(FirstLstatFails)

EntrySpec == EntryInit /\ [][EntryNext]_vars

-----------------------------------------------------------------------------
(* read_filenames on directories of about MAX_FILES entries *)

\* the i-th of the names "aaa", "baa", "caa", ...
BigName(i) == << 97 + (i % 26), 97 + ((i \div 26) % 26), 97 + (i \div 676) >>

\* a directory of n entries, one of them (the second) hidden
BigDir(n) == [ i \in 1..n |-> IF i = 2 THEN << DOT >> \o BigName(i) ELSE BigName(i) ]

\* directories of MAX_FILES - 1, MAX_FILES and MAX_FILES + 1 visible entries
BigDirs == { BigDir(MAX_FILES + k) : k \in 0..2 }

BigInit ==
    /\ ver \in { "v1.2.0", "v1.4.0" }
    /\ args \in { {}, { "l" }, { "r" }, { "l", "r" } }
    /\ path \in { ".", "sub" }
    /\ dir \in BigDirs
    /\ flags = NoFlags
    /\ names = << >>
    /\ listed = << >>
    /\ sorted = << >>
    /\ st_mtime = << >>
    /\ st = << >>
    /\ lstatFail = {}
    /\ term_width = 0
    /\ grid = NoGrid
    /\ out = << >>
    /\ long_rows = << >>
    /\ errs = << >>
    /\ rendered = << >>
    /\ handle = NoHandle
    /\ status = -1
    /\ pc = "getopt"

\* main as far as the return of read_filenames
BigNext ==
    \/ main_getopt
    \/ main_read_opendir
    \/ main_read_malloc_fails
    \/ main_read_filenames

BigSpec == BigInit /\ [][BigNext]_vars

-----------------------------------------------------------------------------
(* cmp_mtime on its own, on times over the range of a 64-bit time_t *)

MaxHi == 2

\* 1 and 2 seconds after the epoch, and the same 2^31, ..., MaxHi * 2^31
\* seconds later
CmpTimes == { [ hi |-> h, lo |-> l ] : h \in 0..MaxHi, l \in { 1, 2 } }

\* arrays of two or three of the names "a", "B", "b", in any order
CmpArrays ==
    { d \in Dirs : Len(d) \in { 2, 3 } /\ \A i \in 1..Len(d) : ~is_hidden(d[i]) }

\* main of v1.4.0 with -t, read_filenames having returned the array
CmpInit ==
    /\ ver = "v1.4.0"
    /\ args = { "t" }
    /\ path \in { ".", "sub" }
    /\ names \in CmpArrays
    /\ dir = names
    /\ flags = getopt_flags(ver, args)
    /\ listed = names
    /\ sorted = names
    /\ st_mtime \in [ Range(names) -> CmpTimes ]
    /\ st = [ n \in Range(dir) |-> lstat_run(n) ]
    /\ lstatFail = {}
    /\ term_width = 0
    /\ grid = NoGrid
    /\ out = << >>
    /\ long_rows = << >>
    /\ errs = << >>
    /\ rendered = << >>
    /\ handle = ReadAndClosed(Len(dir))
    /\ status = -1
    /\ pc = "sort"

\* qsort(names, n, sizeof(char *), cmp_mtime), the entries' times being
\* those of st_mtime
qsort_cmp_mtime ==
    /\ pc = "sort"
    /\ flags["t"]
    /\ \E s \in main_qsort(flags, path, st_mtime, names) :
          names' = s /\ sorted' = s
    /\ pc' = "reverse"
    /\ UNCHANGED << st, ver, args, path, dir, flags, listed, st_mtime,
                    lstatFail, term_width, grid, out, long_rows, errs,
                    rendered, handle, status >>

CmpNext == qsort_cmp_mtime \/ main_reverse

CmpSpec == CmpInit /\ [][CmpNext]_vars

-----------------------------------------------------------------------------
(* Reading standard output back *)

\* what a terminal shows: the output without its colour escape codes
Visible(o) == SelectSeq(o, LAMBDA ch : ch >= 0)

RECURSIVE TokensFrom(_, _, _, _)
\* the maximal runs of characters other than space and newline, from i on
TokensFrom(s, i, cur, acc) ==
    IF i > Len(s) THEN IF cur = << >> THEN acc ELSE Append(acc, cur)
    ELSE IF s[i] = SP \/ s[i] = NL
    THEN TokensFrom(s, i + 1, << >>, IF cur = << >> THEN acc ELSE Append(acc, cur))
    ELSE TokensFrom(s, i + 1, Append(cur, s[i]), acc)

Tokens(s) == TokensFrom(s, 1, << >>, << >>)

RECURSIVE LinesFrom(_, _, _, _)
\* the lines of s, each without the newline that ends it, from i on
LinesFrom(s, i, cur, acc) ==
    IF i > Len(s) THEN IF cur = << >> THEN acc ELSE Append(acc, cur)
    ELSE IF s[i] = NL THEN LinesFrom(s, i + 1, << >>, Append(acc, cur))
    ELSE LinesFrom(s, i + 1, Append(cur, s[i]), acc)

Lines(s) == LinesFrom(s, 1, << >>, << >>)

Reverse(s) == [ i \in 1..Len(s) |-> s[Len(s) + 1 - i] ]

-----------------------------------------------------------------------------
(* C1 *)

\* the cells of the grid that print a name: idx = r + c * rows < n
FilledCells(g, n) ==
    { rc \in (0..(g.rows - 1)) \X (0..(g.cols - 1)) : rc[1] + rc[2] * g.rows < n }

CellIdx(g, rc) == rc[1] + rc[2] * g.rows

\* the names of the filled cells read row by row, left to right
RowMajorNames(g, nm) ==
    LET Row == [ r \in 0..(g.rows - 1) |->
            LET Cell == [ c \in 0..(g.cols - 1) |->
                            IF r + c * g.rows < Len(nm)
                            THEN << nm[r + c * g.rows + 1] >> ELSE << >> ]
            IN  ConcatUpTo(Cell, 0, g.cols - 1) ]
    IN  ConcatUpTo(Row, 0, g.rows - 1)

DownAcrossRan == rendered = << "DownAcross" >> /\ Len(names) >= 1

\* C1: after print_down_then_across has printed n >= 1 names on the grid
\* (rows, cols) it computed, every index 0..n-1 is the index r + c*rows of
\* exactly one cell, the cells read column by column (top to bottom, then left
\* to right) carry the indices in ascending order, that is names[0..n-1] in
\* their original order, and the names on standard output are those of the
\* cells, row by row.
C1_DownAcrossLayout ==
    DownAcrossRan =>
        LET n     == Len(names)
            cells == FilledCells(grid, n)
        IN  /\ \A i \in 0..(n - 1) :
                  Cardinality({ rc \in cells : CellIdx(grid, rc) = i }) = 1
            /\ \A x, y \in cells :
                  (x[2] < y[2] \/ (x[2] = y[2] /\ x[1] < y[1]))
                      => CellIdx(grid, x) < CellIdx(grid, y)
            /\ Cardinality(cells) = n
            /\ Tokens(Visible(out)) = RowMajorNames(grid, names)

\* a grid of several rows and columns whose last row has an unfilled cell
C1_Witness ==
    /\ DownAcrossRan
    /\ Len(names) >= 5
    /\ grid.rows >= 2
    /\ grid.cols >= 2
    /\ grid.rows * grid.cols > Len(names)

-----------------------------------------------------------------------------
(* C2 *)

AcrossDownRan == rendered = << "AcrossDown" >> /\ Len(names) >= 1

\* C2: after the -x renderer has printed the names, the printed lines taken
\* in order and stripped of padding are the names in their original order,
\* each one a token of its own.
C2_AcrossDownRecoversNames ==
    AcrossDownRan => Tokens(Visible(out)) = names

\* print_across_then_down (v1.3.0) does keep the names apart
C2_AcrossThenDown_v130 ==
    (AcrossDownRan /\ ver = "v1.3.0") => Tokens(Visible(out)) = names

-----------------------------------------------------------------------------
(* C3 *)

ColumnsRan ==
    /\ Len(rendered) = 1
    /\ rendered[1] \in { "DownAcross", "AcrossDown" }
    /\ Len(names) >= 1

\* C3: when the widest name and its padding fit the display (max_len +
\* PADDING <= width), no line the DownAcross or the AcrossDown renderer writes
\* has more than width visible characters.
C3_LinesFitWidth ==
    (ColumnsRan /\ maxlen_of(names) + COL_PADDING <= term_width) =>
        \A i \in 1..Len(Lines(Visible(out))) :
            Len(Lines(Visible(out))[i]) <= term_width

\* several lines, one of them as wide as the columns that fit allow
C3_Witness ==
    /\ ColumnsRan
    /\ maxlen_of(names) + COL_PADDING <= term_width
    /\ Len(Lines(Visible(out))) >= 2
    /\ \E i \in 1..Len(Lines(Visible(out))) :
          Len(Lines(Visible(out))[i]) >= 2 * maxlen_of(names) + COL_PADDING

-----------------------------------------------------------------------------
(* C4 *)

TimeBefore(ta, tb) == ta.hi < tb.hi \/ (ta.hi = tb.hi /\ ta.lo < tb.lo)

\* nm is in descending order of modification time, equal times in ascending
\* byte-wise order of the names
NewestFirst(mt, nm) ==
    \A i, j \in 1..Len(nm) :
        i < j => \/ TimeBefore(mt[nm[j]], mt[nm[i]])
                 \/ (mt[nm[j]] = mt[nm[i]] /\ strcmp(nm[i], nm[j]) < 0)

SortedWithT == ver = "v1.4.0" /\ flags["t"] /\ pc \in { "reverse", "display", "done" }
                 /\ Len(listed) >= 1

\* C4: with -t, whatever directory is listed (the default "." or one named on
\* the command line), the names come out of the sort in descending order of
\* the entries' modification times, equal times in ascending order of Name.
C4_NewestFirstAnyPath ==
    SortedWithT => NewestFirst(st_mtime, sorted)

\* What does hold: when the listed directory is the working directory and no
\* two times are 2^31 seconds or more apart, -t sorts newest first.
C4_NewestFirstInCwd ==
    (SortedWithT /\ path = "." /\ \A n \in Range(listed) : st_mtime[n].hi = 0)
        => NewestFirst(st_mtime, sorted)

-----------------------------------------------------------------------------
(* C5 *)

PastReversal == ver = "v1.4.0" /\ pc \in { "display", "done" } /\ Len(listed) >= 1

\* C5: reversal is a final pass over the sorted result: what the renderer is
\* handed with -r is the reverse of what the sort left (without -r it is what
\* the sort left), so -t together with -r ends oldest first; and the reversal
\* pass applied twice gives the sequence back.
C5_ReversedSortIsOldestFirst ==
    PastReversal =>
        LET want == IF flags["r"] THEN Reverse(sorted) ELSE sorted
        IN  /\ names = want
            /\ (flags["t"] /\ flags["r"]) => NewestFirst(st_mtime, Reverse(names))
            /\ reverse_pass(reverse_pass(names)) = names

\* What does hold: the renderer is handed, and prints, the reverse of what
\* the sort left; that is oldest first whenever the sort left the newest
\* first; and the reversal pass applied twice gives the sequence back.
C5_ReversalIsFinalPass ==
    PastReversal =>
        LET want == IF flags["r"] THEN Reverse(sorted) ELSE sorted
        IN  /\ names = want
            /\ rendered = << "SingleColumn" >> => Tokens(out) = want
            /\ (rendered = << "Long" >> /\ lstatFail = {}) => long_rows = want
            /\ (flags["t"] /\ flags["r"] /\ NewestFirst(st_mtime, sorted))
                   => NewestFirst(st_mtime, Reverse(names))
            /\ reverse_pass(reverse_pass(names)) = names
            /\ reverse_pass(reverse_pass(sorted)) = sorted

-----------------------------------------------------------------------------
(* C6 *)

Rendering == pc = "done" /\ Len(names) >= 1

-----------------------------------------------------------------------------
(* C7 *)

\* C7: the names handed to the renderer are those the sort flags define,
\* whatever display flags are given: with -t the newest first, otherwise in
\* ascending order of Name, and the reverse of that with -r.
C7_SortFlagsDefineOrder ==
    (/\ Rendering
     /\ ver \in { "v1.4.0", "v1.5.0" }
     /\ "t" \in args => DOMAIN st_mtime = Range(names))
        => LET base == IF "r" \in args THEN Reverse(names) ELSE names
           IN  IF "t" \in args THEN NewestFirst(st_mtime, base)
               ELSE SortedBy(base, cmp_names(ver, Range(base)))

-----------------------------------------------------------------------------
(* C8 *)

Visible_Names(nm) ==
    \A i \in 1..Len(nm) : nm[i] # << >> /\ nm[i][1] # DOT

\* C8: no name of the Listing read_filenames returns starts with "." and none
\* is empty, and that stays so after the sort and the reversal.
C8_NoHiddenNoEmpty ==
    /\ Visible_Names(listed)
    /\ Visible_Names(sorted)
    /\ Visible_Names(names)
    /\ Visible_Names(long_rows)

\* a directory with a hidden entry, listed, sorted and reversed
C8_Witness ==
    /\ pc = "done"
    /\ ver = "v1.4.0"
    /\ flags["r"]
    /\ \E i \in 1..Len(dir) : dir[i][1] = DOT
    /\ Len(names) >= 2
    /\ names # listed

-----------------------------------------------------------------------------
(* C9 *)

\* C9: the run (of v1.5.0) ends with a non-zero status, having printed a
\* diagnostic, when the directory cannot be opened, and with status zero in
\* every other case.
C9_OpenFailureExitsNonZero ==
    (pc = "done" /\ ver = "v1.5.0") =>
        IF path = "missing"
        THEN status # 0 /\ \E i \in 1..Len(errs) : errs[i].src = "opendir"
        ELSE status = 0

\* What the versions modelled do: a diagnostic, and status zero all the same.
C9_OpenFailureExitsZero ==
    (pc = "done" /\ path = "missing") =>
        /\ status = 0
        /\ \E i \in 1..Len(errs) : errs[i].src = "opendir"
        /\ rendered = << >>

-----------------------------------------------------------------------------
(* C10 *)

LstatDiags == SelectSeq(errs, LAMBDA e : e.src = "lstat")

\* C10: in the long listing an entry whose lstat fails gets a diagnostic on
\* standard error and no row, every other entry gets exactly one row, the
\* rows are in the order of the listing, and the run goes on to the last
\* entry and ends normally.
C10_LstatFailureNotFatal ==
    rendered = << "Long" >> =>
        /\ long_rows = SelectSeq(names, LAMBDA n : n \notin lstatFail)
        /\ Len(LstatDiags) = Cardinality(lstatFail)
        /\ [ i \in 1..Len(LstatDiags) |-> LstatDiags[i].what ]
               = SelectSeq(names, LAMBDA n : n \in lstatFail)
        /\ pc = "done"
        /\ status = 0

\* the second of three entries fails, the third still gets its row
C10_Witness ==
    /\ rendered = << "Long" >>
    /\ Len(names) = 3
    /\ lstatFail = { names[2] }
    /\ long_rows = << names[1], names[3] >>

-----------------------------------------------------------------------------
(* C11 *)

\* directory, rwxr-xr-x, 2 links, alice, staff, 4096 bytes, Mar 05 14:30
FixedEntry ==
    [ kind |-> "dir", perm |-> PERM_755, st_nlink |-> 2,
      pw |-> Found(NAME_ALICE), gr |-> Found(NAME_STAFF), st_size |-> 4096,
      tm |-> [ tm_mon |-> 2, tm_mday |-> 5, tm_hour |-> 14, tm_min |-> 30 ] ]

\* "drwxr-xr-x", 2 spaces, "2", 1 space, "alice", 4 spaces, "staff", gap
\* spaces, "4096", 1 space, "Mar 05 14:30", 1 space, the name
FixedRow(gap, name) ==
    << 100, 114, 119, 120, 114, 45, 120, 114, 45, 120 >> \o << 32, 32 >>
        \o << 50 >> \o << 32 >> \o << 97, 108, 105, 99, 101 >>
        \o << 32, 32, 32, 32 >> \o << 115, 116, 97, 102, 102 >>
        \o [ i \in 1..gap |-> 32 ] \o << 52, 48, 57, 54 >> \o << 32 >>
        \o << 77, 97, 114, 32, 48, 53, 32, 49, 52, 58, 51, 48 >> \o << 32 >>
        \o name

FixedRowPrinted ==
    /\ rendered = << "Long" >>
    /\ lstatFail = {}
    /\ st[names[1]] = FixedEntry

\* C11 as claimed: the row of the fixed entry is exactly "drwxr-xr-x", 2
\* spaces, "2", 1 space, "alice", 4 spaces, "staff", 7 spaces, "4096", 1
\* space, "Mar 05 14:30", 1 space, the name.
C11_FixedRowSevenSpaces ==
    FixedRowPrinted => Lines(out) = << FixedRow(7, names[1]) >>

\* C11 as amended: between "staff" and "4096" there are 8 spaces (3 that fill
\* the group field, the separator, 4 that fill the size field), and v1.5.0
\* writes the name between the colour of a directory and the reset.
C11_FixedRowEightSpaces ==
    FixedRowPrinted =>
        /\ Lines(Visible(out)) = << FixedRow(8, names[1]) >>
        /\ Lines(out) = << FixedRow(8, IF ver = "v1.5.0"
                                       THEN << BLUE_COLOR >> \o names[1]
                                                \o << RESET_COLOR >>
                                       ELSE names[1]) >>

\* the fixed entry listed by v1.5.0
C11_Witness ==
    /\ FixedRowPrinted
    /\ ver = "v1.5.0"
    /\ Len(out) > 40

-----------------------------------------------------------------------------
(* C12 *)

\* the permission bits in the order of the row: owner, group, other
BitOrder == << "rusr", "wusr", "xusr", "rgrp", "wgrp", "xgrp", "roth", "woth", "xoth" >>

\* 'r', 'w', 'x'
BitLetter(i) == << 114, 119, 120 >>[((i - 1) % 3) + 1]

\* 'd' 'l' 'c' 'b' 'p' 's' '-'
KindLetter(kind) ==
    CASE kind = "dir" -> 100
      [] kind = "lnk" -> 108
      [] kind = "chr" -> 99
      [] kind = "blk" -> 98
      [] kind = "fifo" -> 112
      [] kind = "sock" -> 115
      [] OTHER -> 45

OneRowPrinted == rendered = << "Long" >> /\ lstatFail = {} /\ Len(names) = 1

\* the nine characters after the first are r/w/x of owner, group, other, each
\* the letter when the bit is set and '-' otherwise
PermCharsRight ==
    \A i \in 1..9 :
        Visible(out)[1 + i] = IF BitOrder[i] \in st[names[1]].perm
                              THEN BitLetter(i) ELSE 45

\* C12: the first character of a row is 'd' for a directory, 'l' for a
\* symlink, 'c' for a char device, 'b' for a block device, 'p' for a fifo,
\* 's' for a socket and '-' for a regular file, and the next nine are the
\* permission characters.
C12_TypeAndPermChars ==
    (OneRowPrinted /\ ver \in { "v1.2.0", "v1.4.0", "v1.5.0" }) =>
        /\ Visible(out)[1] = KindLetter(st[names[1]].kind)
        /\ PermCharsRight

\* What does hold: v1.2.0 writes the type character as claimed, the later
\* versions write 'd' for a directory and '-' for everything else; all write
\* the nine permission characters as claimed.
C12_TypeCharByVersion ==
    OneRowPrinted =>
        /\ Visible(out)[1] = IF ver = "v1.2.0" \/ st[names[1]].kind = "dir"
                              THEN KindLetter(st[names[1]].kind) ELSE 45
        /\ PermCharsRight

-----------------------------------------------------------------------------
(* C13 *)

\* name ends with suf
EndsWith(name, suf) ==
    /\ Len(name) >= Len(suf)
    /\ SubSeq(name, Len(name) - Len(suf) + 1, Len(name)) = suf

\* suf occurs somewhere in name
Contains(name, suf) ==
    \E k \in 1..(Len(name) - Len(suf) + 1) :
        SubSeq(name, k, k + Len(suf) - 1) = suf

ArchiveExtensions == { EXT_TAR, EXT_GZ, EXT_ZIP, EXT_TGZ }

\* the first-match mapping of the colours, archive saying which names count
\* as archives
FirstMatchColor(s, archive) ==
    CASE s.kind = "dir" -> BLUE_COLOR
      [] s.kind = "lnk" -> MAGENTA_COLOR
      [] s.kind \in { "chr", "blk", "sock" } -> REVERSE_VIDEO
      [] s.kind \in { "reg", "fifo" } /\ s.perm \cap { "xusr", "xgrp", "xoth" } # {}
            -> GREEN_COLOR
      [] s.kind \in { "reg", "fifo" } /\ s.perm \cap { "xusr", "xgrp", "xoth" } = {}
            -> IF archive THEN RED_COLOR ELSE RESET_COLOR

\* v1.5.0 has printed the one entry, its lstat succeeding
ColorPrinted ==
    /\ ver = "v1.5.0"
    /\ Len(rendered) = 1
    /\ Len(names) = 1
    /\ lstatFail = {}

\* the colour escape written before the name
PrintedColor == SelectSeq(out, LAMBDA ch : ch < 0)[1]

\* C13: the colour of an entry is the first match of: directory, symlink,
\* char device / block device / socket, any execute bit, name ending with
\* ".tar", ".gz", ".zip" or ".tgz", and otherwise none.
C13_ColorIsFirstMatchEndsWith ==
    ColorPrinted =>
        PrintedColor = FirstMatchColor(st[names[1]],
                           \E e \in ArchiveExtensions : EndsWith(names[1], e))

\* What does hold: the same first-match mapping with the archive rule
\* matching every name that holds one of the extensions anywhere.
C13_ColorIsFirstMatchContains ==
    ColorPrinted =>
        PrintedColor = FirstMatchColor(st[names[1]],
                           \E e \in ArchiveExtensions : Contains(names[1], e))

-----------------------------------------------------------------------------
(* C14 *)

\* a column renderer has printed a listing of one name longer than the width
WideNamePrinted ==
    /\ rendered \in { << "DownAcross" >>, << "AcrossDown" >> }
    /\ Len(names) = 1
    /\ term_width >= 1
    /\ Len(names[1]) > term_width

\* C14: a single name longer than the display width comes out of DownAcross
\* and of AcrossDown complete and unclipped, alone on one line: one line of
\* the output is the name, character for character, and no other line holds
\* anything.
C14_WideNameAloneUnclipped ==
    WideNamePrinted =>
        LET ls == Lines(Visible(out))
        IN  /\ Tokens(Visible(out)) = << names[1] >>
            /\ Cardinality({ i \in 1..Len(ls) : ls[i] = names[1] }) = 1
            /\ \A i \in 1..Len(ls) : ls[i] = names[1] \/ ls[i] = << >>

\* a name of three characters on a terminal two wide, printed by -x
C14_Witness ==
    /\ WideNamePrinted
    /\ ver = "v1.4.0"
    /\ rendered = << "AcrossDown" >>
    /\ Len(names[1]) = 3
    /\ term_width = 2

-----------------------------------------------------------------------------
(* C15 *)

\* the listing has been sorted by cmp_names: by read_filenames in v1.3.0 and
\* v1.5.0, by main without -t in v1.4.0
SortedByName ==
    /\ Len(listed) >= 1
    /\ \/ ver \in { "v1.3.0", "v1.5.0" } /\ pc \in { "display", "done" }
       \/ ver = "v1.4.0" /\ ~flags["t"] /\ pc \in { "reverse", "display", "done" }

\* C15: the sort by name is total and stable: the sorted Listing is in the
\* order of cmp_names, and two entries that compare equal (names that differ
\* in letter case only, under strcasecmp) are in the order the enumeration
\* gave them, whatever qsort made of them.
C15_NameSortStable ==
    SortedByName =>
        LET cmp == cmp_names(ver, Range(sorted))
        IN  /\ SortedBy(sorted, cmp)
            /\ \A a, b \in Range(sorted) :
                  (a # b /\ cmp[a, b] = 0 /\ IndexOf(dir, a) < IndexOf(dir, b))
                      => IndexOf(sorted, a) < IndexOf(sorted, b)

\* What does hold: the sorted Listing is a rearrangement of the enumeration
\* in the order of cmp_names, and with strcmp (v1.3.0, v1.4.0), under which
\* no two entries compare equal, it is the only one.
C15_NameSortTotal ==
    SortedByName =>
        LET cmp == cmp_names(ver, Range(sorted))
        IN  /\ SortedBy(sorted, cmp)
            /\ Range(sorted) = Range(listed) /\ Len(sorted) = Len(listed)
            /\ ver # "v1.5.0" =>
                  \A i, j \in 1..Len(sorted) : i < j => cmp[sorted[i], sorted[j]] < 0

-----------------------------------------------------------------------------
(* C16 *)

\* the entries of the directory whose name does not start with "."
VisibleEntries == { dir[i] : i \in { k \in 1..Len(dir) : dir[k][1] # DOT } }

\* read_filenames has handed main a Listing
ListingBuilt ==
    /\ pc \notin { "getopt", "read", "reading", "undefined" }
    /\ path # "missing"
    /\ \A i \in 1..Len(errs) : errs[i].src \notin { "malloc", "strdup" }

\* nm holds every visible entry of the directory, each exactly once
IsListingOfDir(nm) ==
    /\ Range(nm) = VisibleEntries
    /\ Len(nm) = Cardinality(VisibleEntries)

\* C16: however many entries the directory has, the Listing read_filenames
\* builds holds every entry whose name does not start with ".", each exactly
\* once, and the sort and the reversal keep it so.
C16_ListingComplete ==
    ListingBuilt =>
        /\ IsListingOfDir(listed)
        /\ IsListingOfDir(sorted)
        /\ IsListingOfDir(names)

\* What does hold: the Listing is the first MAX_FILES visible entries of the
\* enumeration, so it is complete for a directory of at most MAX_FILES
\* visible entries.
C16_ListingCompleteUpToCap ==
    ListingBuilt =>
        /\ Len(listed) = Min(MAX_FILES, Cardinality(VisibleEntries))
        /\ Range(listed) \subseteq VisibleEntries
        /\ Range(sorted) = Range(listed) /\ Len(sorted) = Len(listed)
        /\ Range(names) = Range(listed) /\ Len(names) = Len(listed)
        /\ Cardinality(VisibleEntries) <= MAX_FILES => IsListingOfDir(names)

----------------------------------------------------------------------------
\* C17: the scope of the directory handle

\* read_filenames (main in ls-v1.1.0) is still between opendir and return
InListing == pc \in { "getopt", "read", "reading", "v110_main", "v110_loop" }

\* one handle at most, never closed more often than opened, and closed as
\* often as opened once the listing function has returned: after the normal
\* end, the cap, the malloc failure and the strdup failure alike
HandleClosedOnce ==
    /\ handle.opened <= 1
    /\ handle.closed <= handle.opened
    /\ ~InListing => handle.closed = handle.opened

\* nothing has been written to standard output while the handle is open
NoRenderWhileOpen ==
    handle.opened > handle.closed =>
        out = << >> /\ long_rows = << >> /\ rendered = << >>

\* C17, as claimed: on every exit path after a successful opendir the handle
\* is closed exactly once before the listing function returns, and no
\* rendering step runs while it is open, in every version
C17_HandleScopedToListing == HandleClosedOnce /\ NoRenderWhileOpen

\* C17, amended: on every exit path after a successful opendir the handle is
\* closed exactly once before the listing function returns; no rendering step
\* runs while it is open in the versions that have read_filenames, whereas
\* main of ls-v1.1.0 writes each entry between opendir and closedir
C17_HandleClosedOnEveryPath ==
    /\ HandleClosedOnce
    /\ ver # "v1.1.0" => NoRenderWhileOpen
    /\ (ver = "v1.1.0" /\ out # << >> /\ pc = "v110_loop") =>
            handle.opened > handle.closed

\* read_filenames of v1.2.0 has left through the strdup failure with names
\* already stored, and the handle is closed
C17_Witness ==
    /\ ver = "v1.2.0"
    /\ \E i \in 1..Len(errs) : errs[i].src = "strdup"
    /\ names # << >>
    /\ handle.opened = 1
    /\ handle.closed = 1

\* the other exit paths: the normal end, the malloc failure, the unchecked
\* strdup failure of later versions, and the cap (in a directory of more than
\* MAX_FILES visible entries)
NormalEndTaken == pc = "display" /\ errs = << >> /\ handle.closed = 1

MallocFailureTaken ==
    \E i \in 1..Len(errs) : errs[i].src = "malloc" /\ handle.closed = 1

UncheckedStrdupTaken == pc = "undefined" /\ handle.closed = 1

CapTaken ==
    /\ Len(names) = MAX_FILES
    /\ Len(SelectSeq(dir, LAMBDA e : ~is_hidden(e))) > MAX_FILES
    /\ handle.closed = 1
-----------------------------------------------------------------------------
(* C18 *)

CeilDiv(a, b) == (a + b - 1) \div b

\* the column count before the refinement: min(n, max(1, width / col_width))
NaiveCols == Min(Len(names), fit_cols(names, term_width))

\* the naive column count puts all the names in a single row
NaiveSingleRow == CeilDiv(Len(names), NaiveCols) = 1

\* print_down_then_across (not print_vertical_columns of v1.2.0) has run
RefiningDownAcrossRan == DownAcrossRan /\ ver # "v1.2.0"

\* rows and columns when the refinement does not apply
NaiveGridKept ==
    /\ grid.cols = NaiveCols
    /\ grid.rows = CeilDiv(Len(names), grid.cols)

\* C18: when n > 3 and the naive column count puts all n names in a single
\* row, print_down_then_across ends with rows = 2, columns = ceil(n / 2) and
\* rows = ceil(n / columns); otherwise rows = ceil(n / columns) and
\* columns = min(n, max(1, width / column_width)).
C18_RefinedGridHasTwoRows ==
    RefiningDownAcrossRan =>
        IF Len(names) > 3 /\ NaiveSingleRow
        THEN /\ grid.rows = 2
             /\ grid.cols = CeilDiv(Len(names), 2)
             /\ grid.rows = CeilDiv(Len(names), grid.cols)
        ELSE NaiveGridKept

\* what holds: v1.3.0 refines to two rows, v1.4.0 and v1.5.0 to
\* ceil(n / 2) rows of two columns; rows = ceil(n / columns) either way
C18_RefinedGridByVersion ==
    RefiningDownAcrossRan =>
        IF Len(names) > 3 /\ NaiveSingleRow
        THEN /\ IF ver = "v1.3.0"
                THEN grid.rows = 2 /\ grid.cols = CeilDiv(Len(names), 2)
                ELSE /\ grid.rows = CeilDiv(Len(names), 2)
                     /\ grid.cols = CeilDiv(Len(names), grid.rows)
                     /\ grid.cols = 2
             /\ grid.rows = CeilDiv(Len(names), grid.cols)
        ELSE NaiveGridKept
-----------------------------------------------------------------------------
(* C19 *)

\* how many name fields a printed line holds: print_across_then_down (v1.3.0)
\* writes fields of max_len characters with COL_PADDING spaces between them,
\* print_horizontal_across fields of max_len characters and nothing between
NamesOnLine(v, line, maxlen) ==
    IF v = "v1.3.0"
    THEN IF line = << >> THEN 0
         ELSE (Len(line) + COL_PADDING) \div (maxlen + COL_PADDING)
    ELSE Len(line) \div maxlen

\* the lines of the -x renderer hold cols names each, the last one 1 to cols,
\* and there are ceil(n / cols) of them
LinesHoldColumns ==
    LET L    == Lines(Visible(out))
        cols == fit_cols(names, term_width)
        m    == maxlen_of(names)
    IN  /\ Len(L) = CeilDiv(Len(names), cols)
        /\ \A i \in 1..(Len(L) - 1) : NamesOnLine(ver, L[i], m) = cols
        /\ NamesOnLine(ver, L[Len(L)], m) \in 1..cols

\* C19: with columns = max(1, width / column_width), for every n >= 1 and
\* every width, every line the AcrossDown renderer writes except the last
\* holds exactly columns names, the last line holds 1 to columns names, and
\* exactly ceil(n / columns) lines are written.
C19_AcrossDownLinesHoldColumns == AcrossDownRan => LinesHoldColumns

\* what holds: the same when a column fits the width, and in v1.3.0 always;
\* print_horizontal_across at a width smaller than a column writes an empty
\* line and then one name per line, n + 1 lines in all
C19_LinesHoldColumnsWhenOneFits ==
    AcrossDownRan =>
        IF ver = "v1.3.0" \/ col_width_of(names) <= term_width
        THEN LinesHoldColumns
        ELSE LET L == Lines(Visible(out))
             IN  /\ Len(L) = Len(names) + 1
                 /\ L[1] = << >>
                 /\ \A i \in 2..Len(L) :
                       NamesOnLine(ver, L[i], maxlen_of(names)) = 1
-----------------------------------------------------------------------------
(* C20 *)

\* the row r as described: the names of its filled cells, each in a field of
\* max_len characters, COL_PADDING spaces between two of them and nothing
\* after the last
RowWithoutUnfilledCells(g, nm, r) ==
    LET Cell == [ c \in 0..(g.cols - 1) |->
                    IF r + c * g.rows >= Len(nm) THEN << >>
                    ELSE PadLeftJust(nm[r + c * g.rows + 1], maxlen_of(nm))
                         \o (IF c + 1 <= g.cols - 1
                                 /\ r + (c + 1) * g.rows < Len(nm)
                             THEN Spaces(COL_PADDING) ELSE << >>) ]
    IN  ConcatUpTo(Cell, 0, g.cols - 1)

\* the number of cells of row r that print no name
UnfilledCells(g, n, r) ==
    Cardinality({ c \in 0..(g.cols - 1) : r + c * g.rows >= n })

\* C20: in every row the DownAcross renderer writes, each name is
\* left-justified in a field of max_len characters and followed by PADDING
\* spaces only when another name follows it on the same row; a cell whose
\* index r + c*rows is >= n contributes no characters, so no row has padding
\* after its last name.
C20_UnfilledCellsWriteNothing ==
    DownAcrossRan =>
        /\ Len(Lines(Visible(out))) = grid.rows
        /\ \A r \in 0..(grid.rows - 1) :
              Lines(Visible(out))[r + 1] = RowWithoutUnfilledCells(grid, names, r)

\* what holds: a row is as described up to spaces at its end, which are the
\* COL_PADDING spaces written after the last name of a row that has an
\* unfilled cell (v1.2.0: once; later versions: for every unfilled cell that
\* is not in the last column) and none in a row whose cells are all filled
C20_RowsUpToTrailingPadding ==
    DownAcrossRan =>
        /\ Len(Lines(Visible(out))) = grid.rows
        /\ \A r \in 0..(grid.rows - 1) :
              LET u == UnfilledCells(grid, Len(names), r)
                  k == IF u = 0 THEN 0
                       ELSE IF ver = "v1.2.0" THEN 1
                       ELSE IF u = grid.cols THEN grid.cols - 1
                       ELSE u
              IN  Lines(Visible(out))[r + 1] =
                      RowWithoutUnfilledCells(grid, names, r)
                          \o Spaces(k * COL_PADDING)
-----------------------------------------------------------------------------
(* C21 *)

\* the times ta and tb are less than 2^31 seconds apart
LessThan2p31Apart(ta, tb) ==
    \/ ta.hi = tb.hi
    \/ ta.hi = tb.hi + 1 /\ ta.lo < tb.lo
    \/ tb.hi = ta.hi + 1 /\ tb.lo < ta.lo

\* cmp_mtime(a, b) against the entries' times: negative when a is newer,
\* positive when a is older, the Name comparison when the times are equal
ThreeWayByTime(a, b) ==
    LET r  == cmp_mtime(path, st_mtime, a, b)
        ta == st_mtime[a]
        tb == st_mtime[b]
    IN  /\ TimeBefore(tb, ta) => r < 0
        /\ TimeBefore(ta, tb) => r > 0
        /\ ta = tb => r = strcmp(a, b)

\* antisymmetric and transitive on the names of the array
CmpMtimeConsistent ==
    ConsistentOn(Range(listed), cmp_mtime_on(path, st_mtime, Range(listed)))

\* C21: for every pair of entries, whatever their 64-bit times, cmp_mtime
\* returns a negative int when a is newer than b, a positive int when a is
\* older, and the Name comparison when the times are equal (the conversion of
\* b - a to int keeps its sign and never makes it zero), and it is
\* antisymmetric and transitive over every set of entries, entries whose stat
\* fails included.
C21_CmpMtimeThreeWay ==
    (ver = "v1.4.0" /\ flags["t"] /\ DOMAIN st_mtime = Range(listed)) =>
        /\ \A a, b \in Range(listed) : ThreeWayByTime(a, b)
        /\ CmpMtimeConsistent

\* what holds: the same for entries that stat finds, at times less than 2^31
\* seconds apart; and then the sort leaves the newest first
C21_ThreeWayWhenNearAndFound ==
    (/\ ver = "v1.4.0" /\ flags["t"] /\ DOMAIN st_mtime = Range(listed)
     /\ path = "."
     /\ \A a, b \in Range(listed) : LessThan2p31Apart(st_mtime[a], st_mtime[b]))
        => /\ \A a, b \in Range(listed) : ThreeWayByTime(a, b)
           /\ CmpMtimeConsistent
           /\ pc = "reverse" => NewestFirst(st_mtime, sorted)

\* the ways it fails: a difference of 2^31 seconds comes out with the wrong
\* sign, one of 2^32 seconds as zero, and an entry stat does not find
\* compares equal to two entries that do not compare equal
SignChanged ==
    /\ pc = "sort" /\ path = "."
    /\ \E a, b \in Range(listed) :
          /\ TimeBefore(st_mtime[b], st_mtime[a])
          /\ cmp_mtime(path, st_mtime, a, b) > 0

DifferenceBecameZero ==
    /\ pc = "sort" /\ path = "."
    /\ \E a, b \in Range(listed) :
          /\ st_mtime[a] # st_mtime[b]
          /\ cmp_mtime(path, st_mtime, a, b) = 0

StatFailureBreaksTransitivity ==
    /\ pc = "sort" /\ path = "sub"
    /\ \E a, b, c \in Range(listed) :
          /\ ~stat_name(path, st_mtime, c).ok
          /\ cmp_mtime(path, st_mtime, a, c) = 0
          /\ cmp_mtime(path, st_mtime, c, b) = 0
          /\ cmp_mtime(path, st_mtime, a, b) # 0
-----------------------------------------------------------------------------
(* C22 *)

\* the cell (r, c) of the grid g prints one of n names
Filled(g, n, r, c) == r + c * g.rows < n

\* every cell above the last row holds a name and every column holds a name
NoHoleOutsideLastRow(g, n) ==
    /\ \A r \in 0..(g.rows - 2), c \in 0..(g.cols - 1) : Filled(g, n, r, c)
    /\ \A c \in 0..(g.cols - 1) : \E r \in 0..(g.rows - 1) : Filled(g, n, r, c)

\* the unfilled cells are in the last row, with no name to their right
UnfilledCellsTrailLastRow(g, n) ==
    \A r \in 0..(g.rows - 1), c \in 0..(g.cols - 1) :
        ~Filled(g, n, r, c) =>
            /\ r = g.rows - 1
            /\ \A d \in c..(g.cols - 1) : ~Filled(g, n, r, d)

\* C22: for every n >= 1 and every width, in the grid (rows, columns) that
\* print_down_then_across computes, every cell (r, c) with r < rows - 1 holds
\* a name, every column holds at least one name, and the only unfilled cells
\* are trailing cells of the last row.
C22_NoHoleOutsideLastRow ==
    DownAcrossRan =>
        /\ NoHoleOutsideLastRow(grid, Len(names))
        /\ UnfilledCellsTrailLastRow(grid, Len(names))

\* what holds: the first column is full, the names of a row have no gap
\* between them and those of a column none above them, and the grid is as
\* claimed exactly when it has at most one cell more than names (a single
\* row: no more columns than names)
C22_HolesAreInTheLastColumns ==
    DownAcrossRan =>
        LET n == Len(names)
            g == grid
        IN  /\ \A r \in 0..(g.rows - 1) : Filled(g, n, r, 0)
            /\ \A r \in 0..(g.rows - 1), c \in 1..(g.cols - 1) :
                  Filled(g, n, r, c) => Filled(g, n, r, c - 1)
            /\ \A r \in 1..(g.rows - 1), c \in 0..(g.cols - 1) :
                  Filled(g, n, r, c) => Filled(g, n, r - 1, c)
            /\ (NoHoleOutsideLastRow(g, n) /\ UnfilledCellsTrailLastRow(g, n))
                  <=> (IF g.rows = 1 THEN g.cols <= n
                       ELSE g.rows * g.cols - n <= 1)

\* a column without any name, in a grid of two rows or more
EmptyColumn ==
    /\ DownAcrossRan
    /\ ver \in { "v1.4.0", "v1.5.0" }
    /\ grid.rows >= 2
    /\ \E c \in 0..(grid.cols - 1) :
          \A r \in 0..(grid.rows - 1) : ~Filled(grid, Len(names), r, c)
====
